---- MODULE Spec2Model ----
(***************************************************************************)
(* TRCA: expertise scores of researchers per course.                       *)
(*                                                                         *)
(* The model covers the web application (app.py): the configuration store, *)
(* the analyze() handler, its background task run_analysis_task with the   *)
(* progress callback, the status file analysis_status.json, the polling    *)
(* handler check_status; and the pipeline run_analysis of TC.py that the   *)
(* background task runs.                                                   *)
(*                                                                         *)
(* Text (Python str) is a sequence of code points, so that strip, split    *)
(* and startswith are computed and not assumed.                            *)
(***************************************************************************)
EXTENDS Integers, Sequences, FiniteSets, TLC

(***************************************************************************)
(* Bounds of the model.                                                    *)
(***************************************************************************)
\* number of POST /run_analysis requests over a run
MaxJobs == 2
\* length of the scholar-id list of the default configuration
MaxScholars == 2
\* number of failures the environment injects over a run: a library call
\* or a fetch that raises
MaxFailures == 1
\* longest scholar-id list a client configures for the progress arithmetic
MaxTotal == 50
\* longest author name clean_author_name is called with on its own
MaxName == 3

(***************************************************************************)
(* Text helpers (Python str methods).                                      *)
(***************************************************************************)
\* str.strip() / str.split() whitespace: space, tab, newline, carriage return
Whitespace == {32, 9, 10, 13}

\* the character class of re.split(r'[-–()]', name): - en-dash ( )
Delimiters == {45, 8211, 40, 41}

RECURSIVE LStrip(_)
LStrip(s) ==
    IF s = <<>> THEN <<>>
    ELSE IF Head(s) \in Whitespace THEN LStrip(Tail(s)) ELSE s

RECURSIVE RStrip(_)
RStrip(s) ==
    IF s = <<>> THEN <<>>
    ELSE IF s[Len(s)] \in Whitespace THEN RStrip(SubSeq(s, 1, Len(s) - 1)) ELSE s

\* str.strip()
Strip(s) == RStrip(LStrip(s))

\* the parts of s between the characters of seps, empty parts kept:
\* str.split(sep) and re.split of a one-character class
RECURSIVE SplitAcc(_, _, _, _)
SplitAcc(s, seps, cur, acc) ==
    IF s = <<>> THEN Append(acc, cur)
    ELSE IF Head(s) \in seps
         THEN SplitAcc(Tail(s), seps, <<>>, Append(acc, cur))
         ELSE SplitAcc(Tail(s), seps, Append(cur, Head(s)), acc)

SplitOn(s, seps) == SplitAcc(s, seps, <<>>, <<>>)

RECURSIVE DropEmpty(_)
DropEmpty(parts) ==
    IF parts = <<>> THEN <<>>
    ELSE IF Head(parts) = <<>> THEN DropEmpty(Tail(parts))
         ELSE <<Head(parts)>> \o DropEmpty(Tail(parts))

\* str.split() without argument: runs of whitespace separate, no empty word
Words(s) == DropEmpty(SplitOn(s, Whitespace))

\* str.startswith(prefix)
StartsWith(s, prefix) ==
    /\ Len(s) >= Len(prefix)
    /\ SubSeq(s, 1, Len(prefix)) = prefix

\* the text "Error_"
ErrorPrefix == <<69, 114, 114, 111, 114, 95>>

\* the text "Unknown"
Unknown == <<85, 110, 107, 110, 111, 119, 110>>

(***************************************************************************)
(* clean_author_name (TC.py).  The result is the returned pair, or raised  *)
(* when the except handler itself raises (name.split()[-1] on a name of    *)
(* whitespace only).  isStr is isinstance(name, str).                      *)
(***************************************************************************)
clean_author_name(isStr, name) ==
    IF name = <<>> \/ ~isStr
    THEN [raised |-> FALSE, english |-> Unknown, last |-> Unknown]
    ELSE LET parts == SplitOn(name, Delimiters)
             english_part == Strip(parts[1])
             w == Words(english_part)
         IN  IF w # <<>>
             THEN [raised |-> FALSE, english |-> english_part, last |-> w[Len(w)]]
             ELSE \* IndexError in the try block: the handler runs
                  LET nw == Words(name)
                  IN  IF nw # <<>>
                      THEN [raised |-> FALSE, english |-> name, last |-> nw[Len(nw)]]
                      ELSE [raised |-> TRUE, english |-> <<>>, last |-> <<>>]

(***************************************************************************)
(* The world outside the program: the scholars Google Scholar knows, their *)
(* names and publication titles, and the similarity of a title to a course.*)
(***************************************************************************)
\* the scholar id "s<k>"
ScholarId(k) == <<115, 48 + k>>

\* the author name the external source returns for a scholar id:
\* "A B" for s1, "C D-x" for s2, "A B (z)" for s3, "E" beyond
ScholarName(id) ==
    IF id = ScholarId(1) THEN <<65, 32, 66>>
    ELSE IF id = ScholarId(2) THEN <<67, 32, 68, 45, 120>>
    ELSE IF id = ScholarId(3) THEN <<65, 32, 66, 32, 40, 122, 41>>
    ELSE <<69>>

\* a publication: its title t (0 stands for the empty title) of `words` words
Pub(t, words) == [t |-> t, words |-> words]

\* author['publications'] of a scholar: s1 has one usable title, a short one
\* and an empty one; s2 has none; s3 has six usable titles (two batches)
Publications(id) ==
    IF id = ScholarId(1) THEN <<Pub(1, 4), Pub(2, 2), Pub(0, 0)>>
    ELSE IF id = ScholarId(2) THEN <<>>
    ELSE [p \in 1..6 |-> Pub(2 + p, 3)]

\* cosine similarity of the embeddings of a title and of a course name, in
\* units of one half: -2..2 stands for -1.0..1.0
Cosine(t, course) == ((t + course[1]) % 5) - 2

(***************************************************************************)
(* Configuration store (app.py).                                           *)
(***************************************************************************)
\* DEFAULT_CONFIG: course names "AP", "CV" and the first MaxScholars ids
DEFAULT_CONFIG ==
    [courses |-> << <<65, 80>>, <<67, 86>> >>,
     scholar_ids |-> [k \in 1..MaxScholars |-> ScholarId(k)]]

NoFile == [kind |-> "absent"]

JsonFile(obj) == [kind |-> "json", obj |-> obj]

\* the texts a browser posts as form field 'courses': nothing, blank lines,
\* and "ML\n\n DB "
CourseForms == {<<>>, <<32, 10, 32>>, <<77, 76, 10, 10, 32, 68, 66, 32>>}

\* the texts a browser posts as form field 'scholar_ids': nothing, and
\* "s3\n s1 \n"
ScholarForms == {<<>>, ScholarId(3) \o <<10, 32>> \o ScholarId(1) \o <<32, 10>>}

\* the methods a browser posts as form field 'method' ("median" is not one
\* of the methods calculate_similarity knows)
MethodForms == {"sum", "max", "mean", "median"}

RECURSIVE StripAll(_)
StripAll(lines) ==
    IF lines = <<>> THEN <<>>
    ELSE <<Strip(Head(lines))>> \o StripAll(Tail(lines))

\* request.form.get(f).strip().split('\n'), each line stripped, blank
\* lines dropped
FormLines(text) == DropEmpty(StripAll(SplitOn(Strip(text), {10})))

(***************************************************************************)
(* Scoring (TC.py): calculate_similarity and the batch loop of             *)
(* run_analysis.  A vector is a sequence with one integer per course.      *)
(***************************************************************************)
batch_size == 5

\* np.zeros(n)
Zeros(n) == [c \in 1..n |-> 0]

Max2(a, b) == IF a >= b THEN a ELSE b

Min2(a, b) == IF a <= b THEN a ELSE b

\* sklearn cosine_similarity(pub_vectors, course_vectors): one row per title
cosine_similarity(titles, courses) ==
    [p \in 1..Len(titles) |-> [c \in 1..Len(courses) |-> Cosine(titles[p], courses[c])]]

RECURSIVE ColSum(_, _, _)
ColSum(m, c, p) == IF p = 0 THEN 0 ELSE m[p][c] + ColSum(m, c, p - 1)

RECURSIVE ColMax(_, _, _)
ColMax(m, c, p) == IF p = 1 THEN m[1][c] ELSE Max2(m[p][c], ColMax(m, c, p - 1))

\* calculate_similarity on the similarity matrix m (at least one row) with
\* nc columns: the vector v, each entry over the denominator den (den is
\* the row count for 'mean', whose entries are fractions), or raised for a
\* method that is none of the three (ValueError)
calculate_similarity(m, nc, method) ==
    IF method = "sum"
    THEN [raised |-> FALSE, v |-> [c \in 1..nc |-> ColSum(m, c, Len(m))], den |-> 1]
    ELSE IF method = "max"
    THEN [raised |-> FALSE, v |-> [c \in 1..nc |-> ColMax(m, c, Len(m))], den |-> 1]
    ELSE IF method = "mean"
    THEN [raised |-> FALSE, v |-> [c \in 1..nc |-> ColSum(m, c, Len(m))], den |-> Len(m)]
    ELSE [raised |-> TRUE, v |-> Zeros(nc), den |-> 1]

\* (len(pub_texts) + batch_size - 1) // batch_size
num_batches(pub_texts) == (Len(pub_texts) + batch_size - 1) \div batch_size

\* the accumulation step of the batch loop: 'sum' adds, 'max' keeps the
\* element-wise maximum, any other method leaves result as it is
Accumulate(result, batch_similarity, method) ==
    IF method = "sum"
    THEN [c \in 1..Len(result) |-> result[c] + batch_similarity.v[c]]
    ELSE IF method = "max"
    THEN [c \in 1..Len(result) |-> Max2(result[c], batch_similarity.v[c])]
    ELSE result

\* the batch loop from batch b (0-based) on; failAt is the batch whose
\* model.encode raises (-1: none does)
RECURSIVE BatchLoop(_, _, _, _, _, _)
BatchLoop(pub_texts, courses, method, failAt, b, result) ==
    IF b >= num_batches(pub_texts) THEN [raised |-> FALSE, row |-> result]
    ELSE IF b = failAt THEN [raised |-> TRUE, row |-> result]
    ELSE LET start_idx == b * batch_size
             end_idx == Min2((b + 1) * batch_size, Len(pub_texts))
             batch_texts == SubSeq(pub_texts, start_idx + 1, end_idx)
             batch_similarity ==
                 calculate_similarity(cosine_similarity(batch_texts, courses),
                                      Len(courses), method)
         IN  IF batch_similarity.raised
             THEN [raised |-> TRUE, row |-> result]
             ELSE BatchLoop(pub_texts, courses, method, failAt, b + 1,
                            Accumulate(result, batch_similarity, method))

\* the body of the scoring loop for one author: the author's row
AuthorRow(pub_texts, courses, method, failAt) ==
    IF pub_texts = <<>> THEN Zeros(Len(courses))
    ELSE LET r == BatchLoop(pub_texts, courses, method, failAt, 0, Zeros(Len(courses)))
         IN  IF r.raised THEN Zeros(Len(courses)) ELSE r.row

(***************************************************************************)
(* get_author_data (TC.py): the titles kept of an author's publications.   *)
(***************************************************************************)
RECURSIVE PubTexts(_)
PubTexts(publications) ==
    IF publications = <<>> THEN <<>>
    ELSE LET pub == Head(publications)
         IN  IF pub.t # 0 /\ pub.words >= 3
             THEN <<pub.t>> \o PubTexts(Tail(publications))
             ELSE PubTexts(Tail(publications))

\* the value get_author_data returns: (name, [], pub_texts), or
\* ("Error_<id>", [], []) when anything in it raised
get_author_data(scholar_id, fails) ==
    IF fails
    THEN [name |-> ErrorPrefix \o scholar_id, pub_texts |-> <<>>]
    ELSE [name |-> ScholarName(scholar_id),
          pub_texts |-> PubTexts(Publications(scholar_id))]

(***************************************************************************)
(* State.                                                                  *)
(***************************************************************************)
VARIABLES
    clients,         \* what the clients of the application do over a run
    tcImported,      \* app.py: `from TC import run_analysis` succeeded
    configFile,      \* config/config.json
    statusFile,      \* results/analysis_status.json
    resultsDir,      \* the result files in results/
    poll,            \* the response of GET /check_status when the step just
                     \* taken is that request, "none" after any other step
    failures,        \* the number of failures the environment has injected
    pc,              \* per job: where its request handler or its task stands
    config,          \* per job: the config analyze() loaded
    method,          \* per job: the method analyze() read from the form
    status,          \* per job: the local dict `status` about to be written
    i,               \* per job: run_analysis, the index of the author loop
    authors,         \* per job: all_authors_data and last_names, in key order
    author_results,  \* per job: author_results, in key order
    similarity_df,   \* per job: the sorted table without its Last_Name column
    result_paths,    \* per job: result_paths as run_analysis returns it
    written,         \* per job, history: the records its writes completed
    fetched,         \* per job, history: the calls of get_author_data, each
                     \* with its scholar id and the name it returned
    raised,          \* per job, history: the exception that left run_analysis
    encodeFailed,    \* per job, history: the authors whose model.encode raised
    pngByMtime,      \* the image files of results/, oldest modification first
    page,            \* the response of the last GET /check_results
    cacheDir,        \* the files cache_<id>.pkl of cache/, by scholar id
    cacheCall,       \* per job: where its call of get_author_data stands
    cleaning         \* a call of clean_author_name: its argument and result

vars ==
    <<clients, tcImported, configFile, statusFile, resultsDir, poll, failures, pc,
      config, method, status, i, authors, author_results, similarity_df,
      result_paths, written, fetched, raised, encodeFailed, pngByMtime, page,
      cacheDir, cacheCall, cleaning>>

Jobs == 1..MaxJobs

\* the variables of the pipeline run_analysis
pipeVars ==
    <<i, authors, author_results, similarity_df, result_paths, fetched, raised,
      encodeFailed>>

\* what never changes after start-up
fixedVars == <<clients, tcImported>>

\* the places where a request or its background task has ended
EndedPcs == {"redirected_index", "done", "died"}

\* the runs explored: one analysis with any method posted, the
\* configuration updated at any time and up to MaxFailures failures; and
\* up to MaxJobs analyses launched at any time, one after the other or
\* overlapping, with method 'sum', the configuration as it is and at most
\* one failure
ClientProfiles ==
    {[launches |-> 1, methods |-> MethodForms, reconfigure |-> TRUE,
      faults |-> MaxFailures],
     [launches |-> MaxJobs, methods |-> {"sum"}, reconfigure |-> FALSE,
      faults |-> 1]}

\* a step that answers no GET /check_status
NoPoll == poll' = "none"

\* the failure a step injects (TRUE) fits the budget
Injects(fails) ==
    /\ fails => failures < clients.faults
    /\ failures' = IF fails THEN failures + 1 ELSE failures

(***************************************************************************)
(* The status records (app.py).  A key a record lacks is absent from the   *)
(* record's domain; None is the string "None"; timestamps are "now".       *)
(***************************************************************************)
\* variant: analyze() labels its first record like the task's
Started_running(m, cfg) ==
    [status |-> "running", start_time |-> "now", method |-> m, progress |-> 0,
     total_scholars |-> Len(cfg.scholar_ids), current_scholar |-> 0,
     current_scholar_id |-> <<>>, error |-> "None",
     debug_info |-> "Analysis starting"]

Started(m, cfg) ==
    [status |-> "started", start_time |-> "now", method |-> m, progress |-> 0,
     total_scholars |-> Len(cfg.scholar_ids), current_scholar |-> 0,
     current_scholar_id |-> <<>>, error |-> "None",
     debug_info |-> "Analysis starting"]

\* variant: the task's first record keeps the label of analyze()'s
Running_started(m, cfg) ==
    [status |-> "started", start_time |-> "now", method |-> m, progress |-> 0,
     total_scholars |-> Len(cfg.scholar_ids), current_scholar |-> 0,
     current_scholar_id |-> <<>>, error |-> "None",
     debug_info |-> "Analysis running"]

Running(m, cfg) ==
    [status |-> "running", start_time |-> "now", method |-> m, progress |-> 0,
     total_scholars |-> Len(cfg.scholar_ids), current_scholar |-> 0,
     current_scholar_id |-> <<>>, error |-> "None",
     debug_info |-> "Analysis running"]

(***************************************************************************)
(* Python float arithmetic (IEEE 754 binary64, round to nearest, ties to   *)
(* even).  A positive float is [m, e]: m its 53 significand bits, most     *)
(* significant first, e the exponent of the last bit; its value is m * 2^e.*)
(***************************************************************************)
\* the value of the bits b, most significant first (at most LimbBits of them)
RECURSIVE BitsValue(_)
BitsValue(b) ==
    IF b = <<>> THEN 0 ELSE 2 * BitsValue(SubSeq(b, 1, Len(b) - 1)) + b[Len(b)]

RECURSIVE Pow2(_)
Pow2(e) == IF e = 0 THEN 1 ELSE 2 * Pow2(e - 1)

\* 2^e modulo n, by squaring
RECURSIVE Pow2Mod(_, _)
Pow2Mod(e, n) ==
    IF e = 0 THEN 1 % n
    ELSE LET h == Pow2Mod(e \div 2, n)
         IN  (h * h * (IF e % 2 = 1 THEN 2 ELSE 1)) % n

\* the bits b plus one, and the carry out of the first bit
Increment(b) ==
    IF \A x \in 1..Len(b) : b[x] = 1
    THEN [bits |-> [x \in 1..Len(b) |-> 0], carry |-> 1]
    ELSE LET p == CHOOSE x \in 1..Len(b) :
                      b[x] = 0 /\ \A y \in (x + 1)..Len(b) : b[y] = 1
         IN  [bits |-> [x \in 1..Len(b) |->
                           IF x < p THEN b[x] ELSE IF x = p THEN 1 ELSE 0],
              carry |-> 0]

\* the float of the 53 bits m with exponent e, one unit in the last place
\* up when roundUp
Rounded(m, e, roundUp) ==
    IF ~roundUp THEN [m |-> m, e |-> e]
    ELSE LET up == Increment(m)
         IN  IF up.carry = 0 THEN [m |-> up.bits, e |-> e]
             ELSE [m |-> <<1>> \o SubSeq(up.bits, 1, 52), e |-> e + 1]

\* the least s with k * 2^s >= n, and k * 2^s
RECURSIVE Normalized(_, _, _)
Normalized(k, n, s) ==
    IF k >= n THEN [k |-> k, s |-> s] ELSE Normalized(2 * k, n, s + 1)

\* long division: the first count bits of the fraction r / n for r < n, and
\* the remainder; the remainder before bit x is r * 2^(x-1) modulo n
DivBits(r, n, count) ==
    [bits |-> [x \in 1..count |->
                  IF 2 * ((r * Pow2Mod(x - 1, n)) % n) >= n THEN 1 ELSE 0],
     rem |-> (r * Pow2Mod(count, n)) % n]

\* the float k / n for integers 0 < k <= n
FloatDiv(k, n) ==
    LET norm == Normalized(k, n, 0)
        d == DivBits(norm.k - n, n, 52)
    IN  Rounded(<<1>> \o d.bits, -norm.s - 52,
                2 * d.rem > n \/ (2 * d.rem = n /\ d.bits[52] = 1))

\* multi-word arithmetic: the bits b, most significant first, as words of
\* LimbBits bits, least significant word first
LimbBits == 13

Limbs(b) ==
    [l \in 1..((Len(b) + LimbBits - 1) \div LimbBits) |->
        BitsValue(SubSeq(b, IF Len(b) - LimbBits * l + 1 < 1 THEN 1
                               ELSE Len(b) - LimbBits * l + 1,
                         Len(b) - LimbBits * (l - 1)))]

\* c times the words plus carry, for 0 < c < 2^LimbBits
RECURSIVE MulLimbs(_, _, _)
MulLimbs(limbs, c, carry) ==
    IF limbs = <<>> THEN IF carry = 0 THEN <<>> ELSE <<carry>>
    ELSE <<(Head(limbs) * c + carry) % Pow2(LimbBits)>>
             \o MulLimbs(Tail(limbs), c, (Head(limbs) * c + carry) \div Pow2(LimbBits))

\* the bits of the words, most significant first, without leading zeros
LimbsBits(limbs) ==
    LET n == LimbBits * Len(limbs)
        bits == [x \in 1..n |->
                    (limbs[(n - x) \div LimbBits + 1]
                        \div Pow2((n - x) % LimbBits)) % 2]
        lead == CHOOSE x \in 1..n : bits[x] = 1 /\ \A y \in 1..(x - 1) : bits[y] = 0
    IN  SubSeq(bits, lead, n)

\* the float f * c for a small integer c >= 1
FloatMul(f, c) ==
    LET product == LimbsBits(MulLimbs(Limbs(f.m), c, 0))
        dropped == SubSeq(product, 54, Len(product))
    IN  Rounded(SubSeq(product, 1, 53), f.e + Len(dropped),
                /\ dropped # <<>>
                /\ dropped[1] = 1
                /\ \/ product[53] = 1
                   \/ \E x \in 2..Len(dropped) : dropped[x] = 1)

\* int(f) for a float 0 < f < 2^53: the integer part
FloatInt(f) == IF 53 + f.e <= 0 THEN 0 ELSE BitsValue(SubSeq(f.m, 1, 53 + f.e))

\* int(k / n * 100) for every list length n up to MaxTotal and 0 < k <= n:
\* the float quotient, times 100 in floats, truncated
ProgressTable ==
    [n \in 1..MaxTotal |->
        [k \in 1..n |-> FloatInt(FloatMul(FloatDiv(k, n), 100))]]

\* int((scholar_index + 1) / len(config['scholar_ids']) * 100)
Progress(scholar_index, n) == ProgressTable[n][scholar_index + 1]

\* variant: progress_callback counts the authors already handled
CallbackStatus_handled(st, scholar_index, scholar_id, cfg) ==
    [st EXCEPT !.current_scholar = scholar_index,
               !.current_scholar_id = scholar_id,
               !.progress = IF scholar_index = 0 THEN 0
                            ELSE Progress(scholar_index - 1, Len(cfg.scholar_ids)),
               !.debug_info = "Processing scholar"]

\* progress_callback: the assignments to the task's `status`
CallbackStatus(st, scholar_index, scholar_id, cfg) ==
    [st EXCEPT !.current_scholar = scholar_index + 1,
               !.current_scholar_id = scholar_id,
               !.progress = Progress(scholar_index, Len(cfg.scholar_ids)),
               !.debug_info = "Processing scholar"]

\* variant: the completed record keeps the counter of the started record
Completed_counter0(m, cfg, paths) ==
    [status |-> "completed", start_time |-> "now", end_time |-> "now",
     method |-> m, progress |-> 100, total_scholars |-> Len(cfg.scholar_ids),
     current_scholar |-> 0, result_paths |-> paths,
     error |-> "None", debug_info |-> "Analysis completed successfully"]

Completed(m, cfg, paths) ==
    [status |-> "completed", start_time |-> "now", end_time |-> "now",
     method |-> m, progress |-> 100, total_scholars |-> Len(cfg.scholar_ids),
     current_scholar |-> Len(cfg.scholar_ids), result_paths |-> paths,
     error |-> "None", debug_info |-> "Analysis completed successfully"]

\* variant: the handlers leave the label of the record as it was
ErrorStatus_running(m, e) ==
    [status |-> "running", start_time |-> "now", end_time |-> "now", method |-> m,
     error |-> e, traceback |-> "traceback", debug_info |-> "Error"]

\* the record of both except handlers of run_analysis_task; e is str(e)
ErrorStatus(m, e) ==
    [status |-> "error", start_time |-> "now", end_time |-> "now", method |-> m,
     error |-> e, traceback |-> "traceback", debug_info |-> "Error"]

NoStatus == [status |-> "none"]

Terminal(rec) == rec.status \in {"completed", "error"}

(***************************************************************************)
(* Result files (TC.py).  A file name course_expertise_<method>_<uid><ext> *)
(* is the record of its parts; uuid4 values are taken distinct: the uid    *)
(* names the job and the call that drew it.                                *)
(***************************************************************************)
Uuid(j, call) == [job |-> j, call |-> call]

FileName(m, uid, ext) == [method |-> m, uid |-> uid, ext |-> ext]

NoPaths == [none |-> TRUE]

\* no GET /check_results answered yet
NoPage == [kind |-> "none"]

\* cache/ without file
NoCache == <<>>

\* no call of get_author_data is under way
NotCalling == [at |-> "none"]

\* no call of clean_author_name apart from those of the author loop
NotCleaning == [at |-> "none"]

\* str(e) of an exception a library raises: a message, or the empty text of
\* an exception without arguments (a failed assert, MemoryError())
ExcMessages == {"", "exception message"}

NotRaised == [at |-> "nowhere", e |-> "None"]

\* what a library call does: it returns, or raises an exception
CallOutcomes ==
    {[raises |-> FALSE, e |-> "None"]} \cup {[raises |-> TRUE, e |-> m] : m \in ExcMessages}

Init ==
    /\ clients \in ClientProfiles
    /\ tcImported \in BOOLEAN
    /\ configFile = NoFile
    /\ statusFile = NoFile
    /\ resultsDir = {}
    /\ poll = "none"
    /\ failures = 0
    /\ pc = [j \in Jobs |-> "idle"]
    /\ config = [j \in Jobs |-> DEFAULT_CONFIG]
    /\ method = [j \in Jobs |-> "sum"]
    /\ status = [j \in Jobs |-> NoStatus]
    /\ i = [j \in Jobs |-> 0]
    /\ authors = [j \in Jobs |-> <<>>]
    /\ author_results = [j \in Jobs |-> <<>>]
    /\ similarity_df = [j \in Jobs |-> <<>>]
    /\ result_paths = [j \in Jobs |-> NoPaths]
    /\ written = [j \in Jobs |-> <<>>]
    /\ fetched = [j \in Jobs |-> <<>>]
    /\ raised = [j \in Jobs |-> NotRaised]
    /\ encodeFailed = [j \in Jobs |-> {}]
    /\ pngByMtime = <<>>
    /\ page = NoPage
    /\ cacheDir = NoCache
    /\ cacheCall = [j \in Jobs |-> NotCalling]
    /\ cleaning = NotCleaning

(***************************************************************************)
(* Configuration handlers (app.py).  Their flash messages and redirects    *)
(* are not state.                                                          *)
(***************************************************************************)
\* load_config: the config returned and the config file afterwards (the
\* default is saved when the file is missing)
load_config(file) ==
    IF file.kind = "json"
    THEN [config |-> file.obj, file |-> file]
    ELSE [config |-> DEFAULT_CONFIG, file |-> JsonFile(DEFAULT_CONFIG)]

\* GET /
index ==
    /\ configFile' = load_config(configFile).file
    /\ NoPoll
    /\ UNCHANGED <<pngByMtime, page, cacheDir, cacheCall>>
    /\ UNCHANGED cleaning
    /\ UNCHANGED <<clients, tcImported, statusFile, resultsDir, failures, pc, config,
                   method, status, written>>
    /\ UNCHANGED pipeVars

\* the config file after POST /update_config with the two form texts: an
\* empty list of either kind is refused and the file stays
ConfigAfterUpdate(file, cf, sf) ==
    LET courses == FormLines(cf)
        scholar_ids == FormLines(sf)
    IN  IF courses = <<>> THEN file
        ELSE IF scholar_ids = <<>> THEN file
        ELSE JsonFile([courses |-> courses, scholar_ids |-> scholar_ids])

\* POST /update_config
update_config ==
    /\ clients.reconfigure
    /\ \E cf \in CourseForms, sf \in ScholarForms :
           configFile' = ConfigAfterUpdate(configFile, cf, sf)
    /\ NoPoll
    /\ UNCHANGED <<pngByMtime, page, cacheDir, cacheCall>>
    /\ UNCHANGED cleaning
    /\ UNCHANGED <<clients, tcImported, statusFile, resultsDir, failures, pc, config,
                   method, status, written>>
    /\ UNCHANGED pipeVars

(***************************************************************************)
(* Writing the status file: `with open(status_file, 'w') as f:` truncates  *)
(* the file, json.dump(status, f) fills the buffer that leaving the block  *)
(* writes at offset 0.                                                     *)
(***************************************************************************)
EmptyFile == [kind |-> "empty"]

CorruptFile == [kind |-> "corrupt"]

\* the places where a thread is about to open the status file
OpenPcs ==
    {"analyze_open", "running_open", "completed_open", "error_open",
     "outer_error_open"}

\* the places where a thread holds the status file open
DumpPcs ==
    {"analyze_dump", "running_dump", "callback_dump", "completed_dump",
     "error_dump", "outer_error_dump"}

AfterOpen(p) ==
    CASE p = "analyze_open" -> "analyze_dump"
      [] p = "running_open" -> "running_dump"
      [] p = "completed_open" -> "completed_dump"
      [] p = "error_open" -> "error_dump"
      [] p = "outer_error_open" -> "outer_error_dump"

\* variant: the inner handler re-raises after its write, so the outer
\* handler writes too
AfterDump_reraise(p) ==
    CASE p = "analyze_dump" -> "thread_start"
      [] p = "running_dump" -> "model_init"
      [] p = "callback_dump" -> "fetch"
      [] p = "completed_dump" -> "done"
      [] p = "error_dump" -> "outer_error_open"
      [] p = "outer_error_dump" -> "done"

\* the statement after each write
AfterDump(p) ==
    CASE p = "analyze_dump" -> "thread_start"
      [] p = "running_dump" -> "model_init"
      [] p = "callback_dump" -> "fetch"
      [] p = "completed_dump" -> "done"
      [] p = "error_dump" -> "done"
      [] p = "outer_error_dump" -> "done"

\* the file after a writer's buffer is written at offset 0: the writer's
\* record, unless another writer filled the file since this one truncated
\* it, and then also the record followed by the rest of a longer content
DumpOutcomes(file, rec) ==
    IF file.kind = "empty" THEN {JsonFile(rec)} ELSE {JsonFile(rec), CorruptFile}

open_status_file(j) ==
    /\ pc[j] \in OpenPcs
    /\ statusFile' = EmptyFile
    /\ pc' = [pc EXCEPT ![j] = AfterOpen(pc[j])]
    /\ NoPoll
    /\ UNCHANGED <<pngByMtime, page, cacheDir, cacheCall>>
    /\ UNCHANGED cleaning
    /\ UNCHANGED <<clients, tcImported, configFile, resultsDir, failures, config, method,
                   status, written>>
    /\ UNCHANGED pipeVars

json_dump(j) ==
    /\ pc[j] \in DumpPcs
    /\ statusFile' \in DumpOutcomes(statusFile, status[j])
    /\ written' = [written EXCEPT ![j] = Append(@, status[j])]
    /\ pc' = [pc EXCEPT ![j] = AfterDump(pc[j])]
    /\ NoPoll
    /\ UNCHANGED <<pngByMtime, page, cacheDir, cacheCall>>
    /\ UNCHANGED cleaning
    /\ UNCHANGED <<clients, tcImported, configFile, resultsDir, failures, config, method,
                   status>>
    /\ UNCHANGED pipeVars

(***************************************************************************)
(* POST /run_analysis: analyze() and the start of its background thread.   *)
(***************************************************************************)
\* variant: analyze() refuses a launch while a job has written 'started'
\* and no terminal record
AnalyzeGoes_exclusive(imported) ==
    IF /\ imported
       /\ \A k \in DOMAIN written :
            written[k] = <<>> \/ Terminal(written[k][Len(written[k])])
    THEN "analyze_open"
    ELSE "redirected_index"

\* where analyze() goes after its module check: on to the started record,
\* or (run_analysis unbound: NameError) to the redirect to index
AnalyzeGoes(imported) == IF imported THEN "analyze_open" ELSE "redirected_index"

\* analyze() up to the started record: the module check, the config, the
\* method.  Requests are numbered in the order they arrive.
analyze(j) ==
    /\ pc[j] = "idle"
    /\ j <= clients.launches
    /\ \A k \in 1..(j - 1) : pc[k] # "idle"
    /\ \E m \in clients.methods :
        IF AnalyzeGoes(tcImported) = "redirected_index"
        THEN /\ pc' = [pc EXCEPT ![j] = "redirected_index"]
             /\ UNCHANGED <<configFile, config, method, status>>
        ELSE LET loaded == load_config(configFile)
             IN  /\ configFile' = loaded.file
                 /\ config' = [config EXCEPT ![j] = loaded.config]
                 /\ method' = [method EXCEPT ![j] = m]
                 /\ status' = [status EXCEPT ![j] = Started(m, loaded.config)]
                 /\ pc' = [pc EXCEPT ![j] = AnalyzeGoes(tcImported)]
    /\ NoPoll
    /\ UNCHANGED <<pngByMtime, page, cacheDir, cacheCall>>
    /\ UNCHANGED cleaning
    /\ UNCHANGED <<clients, tcImported, statusFile, resultsDir, failures, written>>
    /\ UNCHANGED pipeVars

\* thread.start() and the first statements of run_analysis_task, which
\* build the running record; analyze() returns the redirect to check_status
thread_start(j) ==
    /\ pc[j] = "thread_start"
    /\ status' = [status EXCEPT ![j] = Running(method[j], config[j])]
    /\ pc' = [pc EXCEPT ![j] = "running_open"]
    /\ NoPoll
    /\ UNCHANGED <<pngByMtime, page, cacheDir, cacheCall>>
    /\ UNCHANGED cleaning
    /\ UNCHANGED <<clients, tcImported, configFile, statusFile, resultsDir, failures,
                   config, method, written>>
    /\ UNCHANGED pipeVars

(***************************************************************************)
(* run_analysis (TC.py), run by run_analysis_task (app.py).                *)
(***************************************************************************)
\* d[name] = value on a dict kept as the sequence of its entries in key
\* order: an existing key keeps its place
RECURSIVE DictPut(_, _)
DictPut(d, entry) ==
    IF d = <<>> THEN <<entry>>
    ELSE IF Head(d).name = entry.name THEN <<entry>> \o Tail(d)
         ELSE <<Head(d)>> \o DictPut(Tail(d), entry)

\* a < b for str: by code point, a proper prefix first
RECURSIVE TextLess(_, _)
TextLess(a, b) ==
    IF b = <<>> THEN FALSE
    ELSE IF a = <<>> THEN TRUE
    ELSE IF Head(a) # Head(b) THEN Head(a) < Head(b)
    ELSE TextLess(Tail(a), Tail(b))

\* row r put into the sorted rows, after the rows of an equal Last_Name
RECURSIVE InsertRow(_, _)
InsertRow(rows, r) ==
    IF rows = <<>> THEN <<r>>
    ELSE IF TextLess(r.last_name, Head(rows).last_name) THEN <<r>> \o rows
         ELSE <<Head(rows)>> \o InsertRow(Tail(rows), r)

\* similarity_df.sort_values('Last_Name')
RECURSIVE sort_values(_)
sort_values(rows) ==
    IF rows = <<>> THEN <<>>
    ELSE InsertRow(sort_values(SubSeq(rows, 1, Len(rows) - 1)), rows[Len(rows)])

\* pd.DataFrame.from_dict(author_results, orient='index') with the column
\* Last_Name = index.map(last_names)
DataFrame(results, auths) ==
    [k \in 1..Len(results) |->
        [name |-> results[k].name, row |-> results[k].row,
         last_name |-> auths[k].last_name]]

\* df.drop('Last_Name', axis=1)
DropLastName(df) ==
    [k \in 1..Len(df) |-> [name |-> df[k].name, row |-> df[k].row]]

\* an exception e leaves run_analysis, or the completed write raises: the
\* inner except handler of run_analysis_task builds the error record
InnerExcept(j, e) ==
    /\ status' = [status EXCEPT ![j] = ErrorStatus(method[j], e)]
    /\ pc' = [pc EXCEPT ![j] = "error_open"]

\* the variables of run_analysis a step before the author loop leaves alone
loopVars ==
    <<i, authors, author_results, similarity_df, result_paths, fetched,
      encodeFailed>>

\* variant: the loop calls progress_callback after get_author_data, so the
\* step after a fetch is the next fetch
LoopGoes_nocallback(next_i, cfg) ==
    IF next_i < Len(cfg.scholar_ids) THEN "fetch" ELSE "score"

\* the author loop: its next pass, or the scoring loop after its last
LoopGoes(next_i, cfg) == IF next_i < Len(cfg.scholar_ids) THEN "loop" ELSE "score"

\* SentenceTransformer(...): returns or raises (re-raised by run_analysis)
model_init(j) ==
    /\ pc[j] = "model_init"
    /\ \E call \in CallOutcomes :
        /\ Injects(call.raises)
        /\ IF call.raises
           THEN /\ InnerExcept(j, call.e)
                /\ raised' = [raised EXCEPT ![j] = [at |-> "model_init", e |-> call.e]]
           ELSE /\ pc' = [pc EXCEPT ![j] = "encode_courses"]
                /\ UNCHANGED <<status, raised>>
    /\ NoPoll
    /\ UNCHANGED <<pngByMtime, page, cacheDir, cacheCall>>
    /\ UNCHANGED cleaning
    /\ UNCHANGED <<clients, tcImported, configFile, statusFile, resultsDir, config,
                   method, written>>
    /\ UNCHANGED loopVars

\* model.encode(courses): returns or raises (re-raised by run_analysis)
encode_courses(j) ==
    /\ pc[j] = "encode_courses"
    /\ \E call \in CallOutcomes :
        /\ Injects(call.raises)
        /\ IF call.raises
           THEN /\ InnerExcept(j, call.e)
                /\ raised' = [raised EXCEPT ![j] =
                       [at |-> "encode_courses", e |-> call.e]]
           ELSE /\ pc' = [pc EXCEPT ![j] = LoopGoes(0, config[j])]
                /\ UNCHANGED <<status, raised>>
    /\ NoPoll
    /\ UNCHANGED <<pngByMtime, page, cacheDir, cacheCall>>
    /\ UNCHANGED cleaning
    /\ UNCHANGED <<clients, tcImported, configFile, statusFile, resultsDir, config,
                   method, written>>
    /\ UNCHANGED loopVars

\* the author loop calls progress_callback(i, scholar_id), which assigns to
\* the task's status and opens the status file to write it
progress_callback(j) ==
    /\ pc[j] = "loop"
    /\ status' = [status EXCEPT ![j] =
           CallbackStatus(@, i[j], config[j].scholar_ids[i[j] + 1], config[j])]
    /\ statusFile' = EmptyFile
    /\ pc' = [pc EXCEPT ![j] = "callback_dump"]
    /\ NoPoll
    /\ UNCHANGED <<pngByMtime, page, cacheDir, cacheCall>>
    /\ UNCHANGED cleaning
    /\ UNCHANGED <<clients, tcImported, configFile, resultsDir, failures, config, method,
                   written>>
    /\ UNCHANGED pipeVars

\* variant: the loop keeps the sentinel of a failed fetch as an author
AuthorsAfter_keepsentinel(auths, data) ==
    LET c == clean_author_name(TRUE, data.name)
    IN  IF c.raised THEN auths
        ELSE DictPut(auths, [name |-> c.english, pub_texts |-> data.pub_texts,
                             last_name |-> c.last])

\* what the loop body does with the value get_author_data returned: a
\* sentinel name is skipped, and so is a name clean_author_name raises on
AuthorsAfter(auths, data) ==
    IF StartsWith(data.name, ErrorPrefix) THEN auths
    ELSE LET c == clean_author_name(TRUE, data.name)
         IN  IF c.raised THEN auths
             ELSE DictPut(auths, [name |-> c.english, pub_texts |-> data.pub_texts,
                                  last_name |-> c.last])

\* the cache after a call of get_author_data for scholar_id returned the
\* author: the file pickle.dump wrote when none was there (writes counts
\* the open(cache_file, 'wb') of the file)
Cached(files, scholar_id) ==
    IF scholar_id \in DOMAIN files THEN files
    ELSE [id \in DOMAIN files \cup {scholar_id} |->
             IF id = scholar_id THEN [kind |-> "pickle", writes |-> 1]
             ELSE files[id]]

\* get_author_data(scholar_id) and the rest of the loop body
fetch(j) ==
    /\ pc[j] = "fetch"
    /\ \E fails \in BOOLEAN :
        \E scholar_id \in {config[j].scholar_ids[i[j] + 1]} :
            \E data \in {get_author_data(scholar_id, fails)} :
                \E after \in {AuthorsAfter(authors[j], data)} :
                    /\ Injects(fails)
                    /\ cacheDir' = IF fails THEN cacheDir
                                   ELSE Cached(cacheDir, scholar_id)
                    /\ authors' = [authors EXCEPT ![j] = after]
                    /\ fetched' = [fetched EXCEPT ![j] =
                           Append(@, [scholar_id |-> scholar_id, name |-> data.name])]
    /\ i' = [i EXCEPT ![j] = @ + 1]
    /\ pc' = [pc EXCEPT ![j] = LoopGoes(i[j] + 1, config[j])]
    /\ NoPoll
    /\ UNCHANGED <<pngByMtime, page, cacheCall>>
    /\ UNCHANGED cleaning
    /\ UNCHANGED <<clients, tcImported, configFile, statusFile, resultsDir, config,
                   method, status, written>>
    /\ UNCHANGED <<author_results, similarity_df, result_paths, raised,
                   encodeFailed>>

\* for each author the batch whose model.encode raises (-1: none): the
\* choices the budget of failures allows
EncodeFailures(auths, budget) ==
    {f \in [1..Len(auths) -> -1..1] :
        /\ \A k \in 1..Len(auths) : f[k] < num_batches(auths[k].pub_texts)
        /\ Cardinality({k \in 1..Len(auths) : f[k] >= 0}) <= budget}

\* the scoring loop: author_results for all_authors_data
ScoreAll(auths, courses, m, failAt) ==
    [k \in 1..Len(auths) |->
        [name |-> auths[k].name,
         row |-> AuthorRow(auths[k].pub_texts, courses, m, failAt[k])]]

score(j) ==
    /\ pc[j] = "score"
    /\ \E failAt \in EncodeFailures(authors[j], clients.faults - failures) :
        /\ author_results' = [author_results EXCEPT ![j] =
               ScoreAll(authors[j], config[j].courses, method[j], failAt)]
        /\ failures' = failures +
               Cardinality({k \in 1..Len(authors[j]) : failAt[k] >= 0})
        /\ encodeFailed' = [encodeFailed EXCEPT ![j] =
               {authors[j][k].name : k \in {n \in 1..Len(authors[j]) : failAt[n] >= 0}}]
    /\ pc' = [pc EXCEPT ![j] = "to_csv"]
    /\ NoPoll
    /\ UNCHANGED <<pngByMtime, page, cacheDir, cacheCall>>
    /\ UNCHANGED cleaning
    /\ UNCHANGED <<clients, tcImported, configFile, statusFile, resultsDir, config,
                   method, status, written>>
    /\ UNCHANGED <<i, authors, similarity_df, result_paths, fetched, raised>>

\* uuid4 calls of one run_analysis: run_id, unique_id, and the unique_id of
\* visualize_results
RunUid(j) == Uuid(j, 2)

VizUid(j) == Uuid(j, 3)

\* the table is built and sorted, and its CSV file is written
to_csv(j) ==
    /\ pc[j] = "to_csv"
    /\ similarity_df' = [similarity_df EXCEPT ![j] =
           DropLastName(sort_values(DataFrame(author_results[j], authors[j])))]
    /\ resultsDir' = resultsDir \cup {FileName(method[j], RunUid(j), ".csv")}
    /\ pc' = [pc EXCEPT ![j] = "visualize"]
    /\ NoPoll
    /\ UNCHANGED <<pngByMtime, page, cacheDir, cacheCall>>
    /\ UNCHANGED cleaning
    /\ UNCHANGED <<clients, tcImported, configFile, statusFile, failures, config, method,
                   status, written>>
    /\ UNCHANGED <<i, authors, author_results, result_paths, fetched, raised,
                   encodeFailed>>

\* the dict visualize_results returns
VizPaths(m, uid) ==
    [png |-> FileName(m, uid, "_heatmap.png"),
     pdf |-> FileName(m, uid, "_heatmap.pdf"),
     csv |-> FileName(m, uid, ".csv")]

\* variant: run_analysis rebuilds the three names when visualize_results
\* raised
CsvOnlyPaths_all(m, uid) == VizPaths(m, uid)

\* the dict run_analysis builds when visualize_results raised
CsvOnlyPaths(m, uid) == [csv |-> FileName(m, uid, ".csv")]

\* the files visualize_results has saved when it ends: both, none (it
\* raised before the first savefig) or the PNG alone (the second raised)
VizFiles(m, uid, outcome) ==
    CASE outcome = "saved" ->
             {FileName(m, uid, "_heatmap.png"), FileName(m, uid, "_heatmap.pdf")}
      [] outcome = "raised" -> {}
      [] outcome = "raised_after_png" -> {FileName(m, uid, "_heatmap.png")}

\* the image file visualize_results has saved, if any: the newest of
\* results/
SavedPng(m, uid, outcome) ==
    IF outcome = "raised" THEN <<>> ELSE <<FileName(m, uid, "_heatmap.png")>>

\* visualize_results inside try/except, the return of run_analysis, and the
\* completed record run_analysis_task builds from the returned paths
visualize(j) ==
    /\ pc[j] = "visualize"
    /\ \E outcome \in {"saved", "raised", "raised_after_png"} :
        LET paths == IF outcome = "saved"
                     THEN VizPaths(method[j], VizUid(j))
                     ELSE CsvOnlyPaths(method[j], RunUid(j))
        IN  /\ Injects(outcome # "saved")
            /\ resultsDir' = resultsDir \cup VizFiles(method[j], VizUid(j), outcome)
            /\ pngByMtime' = pngByMtime \o SavedPng(method[j], VizUid(j), outcome)
            /\ result_paths' = [result_paths EXCEPT ![j] = paths]
            /\ status' = [status EXCEPT ![j] = Completed(method[j], config[j], paths)]
    /\ pc' = [pc EXCEPT ![j] = "completed_open"]
    /\ NoPoll
    /\ UNCHANGED <<page, cacheDir, cacheCall>>
    /\ UNCHANGED cleaning
    /\ UNCHANGED <<clients, tcImported, configFile, statusFile, config, method, written>>
    /\ UNCHANGED <<i, authors, author_results, similarity_df, fetched, raised,
                   encodeFailed>>

(***************************************************************************)
(* GET /check_status.                                                      *)
(***************************************************************************)
\* variant: check_status lets the JSONDecodeError of json.load escape
check_status_response_uncaught(file) ==
    IF file.kind = "absent" THEN "status_page_empty"
    ELSE IF file.kind # "json" THEN "internal_server_error"
    ELSE IF file.obj.status = "completed" THEN "redirect_check_results"
    ELSE IF file.obj.status = "error" THEN "redirect_index"
    ELSE "status_page"

\* the response of check_status for a content of the status file: an
\* absent file and a file json.load cannot decode give the status page
\* with the empty status
check_status_response(file) ==
    IF file.kind = "absent" THEN "status_page_empty"
    ELSE IF file.kind # "json" THEN "status_page_empty"
    ELSE IF file.obj.status = "completed" THEN "redirect_check_results"
    ELSE IF file.obj.status = "error" THEN "redirect_index"
    ELSE "status_page"

check_status ==
    /\ poll' = check_status_response(statusFile)
    /\ UNCHANGED <<pngByMtime, page, cacheDir, cacheCall>>
    /\ UNCHANGED cleaning
    /\ UNCHANGED <<clients, tcImported, configFile, statusFile, resultsDir, failures, pc,
                   config, method, status, written>>
    /\ UNCHANGED pipeVars

(***************************************************************************)
(* The specification: every write to the status file succeeds.             *)
(***************************************************************************)
Next ==
    \/ index
    \/ update_config
    \/ check_status
    \/ \E j \in Jobs :
        \/ analyze(j)
        \/ open_status_file(j)
        \/ json_dump(j)
        \/ thread_start(j)
        \/ model_init(j)
        \/ encode_courses(j)
        \/ progress_callback(j)
        \/ fetch(j)
        \/ score(j)
        \/ to_csv(j)
        \/ visualize(j)

Spec == Init /\ [][Next]_vars

(***************************************************************************)
(* The specification in which file writes may raise (OSError): each of the *)
(* status-file writes and the CSV write.                                   *)
(***************************************************************************)
\* variant: analyze() swallows the exception of its write and goes on
WriteRaiseGoes_swallow(p) ==
    CASE p \in {"analyze_open", "analyze_dump"} -> "thread_start"
      [] p \in {"running_open", "running_dump"} -> "outer_error_open"
      [] p = "callback_dump" -> "fetch"
      [] p \in {"completed_open", "completed_dump"} -> "error_open"
      [] p \in {"error_open", "error_dump"} -> "outer_error_open"
      [] p \in {"outer_error_open", "outer_error_dump"} -> "died"

\* the except handler that catches an exception of the write at place p:
\* analyze()'s own (flash, redirect to index), progress_callback's (log and
\* return to the loop), the inner handler of run_analysis_task for the
\* completed write inside its try, the outer handler for the running write
\* and for a write of the inner handler; none for the outer handler's write
WriteRaiseGoes(p) ==
    CASE p \in {"analyze_open", "analyze_dump"} -> "redirected_index"
      [] p \in {"running_open", "running_dump"} -> "outer_error_open"
      [] p = "callback_dump" -> "fetch"
      [] p \in {"completed_open", "completed_dump"} -> "error_open"
      [] p \in {"error_open", "error_dump"} -> "outer_error_open"
      [] p \in {"outer_error_open", "outer_error_dump"} -> "died"

\* the exception of a write at the place pc[j] reaches its handler; the two
\* handlers of run_analysis_task build the error record
WriteRaised(j) ==
    LET goes == WriteRaiseGoes(pc[j])
    IN  /\ pc' = [pc EXCEPT ![j] = goes]
        /\ status' = [status EXCEPT ![j] =
               IF goes \in {"error_open", "outer_error_open"}
               THEN ErrorStatus(method[j], "status file write failed")
               ELSE @]

\* open(status_file, 'w') raises: the file is as it was
open_raises(j) ==
    /\ pc[j] \in OpenPcs
    /\ Injects(TRUE)
    /\ WriteRaised(j)
    /\ NoPoll
    /\ UNCHANGED <<pngByMtime, page, cacheDir, cacheCall>>
    /\ UNCHANGED cleaning
    /\ UNCHANGED <<clients, tcImported, configFile, statusFile, resultsDir,
                   config, method, written>>
    /\ UNCHANGED pipeVars

\* progress_callback's open raises, after its assignments to status
callback_open_raises(j) ==
    /\ pc[j] = "loop"
    /\ Injects(TRUE)
    /\ status' = [status EXCEPT ![j] =
           CallbackStatus(@, i[j], config[j].scholar_ids[i[j] + 1], config[j])]
    /\ pc' = [pc EXCEPT ![j] = "fetch"]
    /\ NoPoll
    /\ UNCHANGED <<pngByMtime, page, cacheDir, cacheCall>>
    /\ UNCHANGED cleaning
    /\ UNCHANGED <<clients, tcImported, configFile, statusFile, resultsDir,
                   config, method, written>>
    /\ UNCHANGED pipeVars

\* the write of the buffer raises: nothing or a part of the record is in
\* the file
dump_raises(j) ==
    /\ pc[j] \in DumpPcs
    /\ Injects(TRUE)
    /\ statusFile' \in {statusFile, CorruptFile}
    /\ WriteRaised(j)
    /\ NoPoll
    /\ UNCHANGED <<pngByMtime, page, cacheDir, cacheCall>>
    /\ UNCHANGED cleaning
    /\ UNCHANGED <<clients, tcImported, configFile, resultsDir, config, method,
                   written>>
    /\ UNCHANGED pipeVars

\* to_csv raises, with the file created or not: the exception leaves
\* run_analysis
to_csv_raises(j) ==
    /\ pc[j] = "to_csv"
    /\ Injects(TRUE)
    /\ similarity_df' = [similarity_df EXCEPT ![j] =
           DropLastName(sort_values(DataFrame(author_results[j], authors[j])))]
    /\ resultsDir' \in
           {resultsDir, resultsDir \cup {FileName(method[j], RunUid(j), ".csv")}}
    /\ InnerExcept(j, "csv write failed")
    /\ raised' = [raised EXCEPT ![j] = [at |-> "to_csv", e |-> "csv write failed"]]
    /\ NoPoll
    /\ UNCHANGED <<pngByMtime, page, cacheDir, cacheCall>>
    /\ UNCHANGED cleaning
    /\ UNCHANGED <<clients, tcImported, configFile, statusFile, config, method,
                   written>>
    /\ UNCHANGED <<i, authors, author_results, result_paths, fetched,
                   encodeFailed>>

NextIO ==
    \/ Next
    \/ \E j \in Jobs :
        \/ open_raises(j)
        \/ callback_open_raises(j)
        \/ dump_raises(j)
        \/ to_csv_raises(j)

SpecIO == Init /\ [][NextIO]_vars

(***************************************************************************)
(* Properties of the job life cycle.                                       *)
(***************************************************************************)
\* the statuses of a sequence of records
Statuses(w) == [k \in 1..Len(w) |-> w[k].status]

\* the positions of the terminal records in a sequence of records
Terminals(w) == {k \in 1..Len(w) : Terminal(w[k])}

\* job k has written 'started' and no terminal record since
Unterminated(k) == written[k] # <<>> /\ ~Terminal(written[k][Len(written[k])])

\* the places of analyze(): before the thread of the job exists
HandlerPcs == {"idle", "analyze_open", "analyze_dump", "thread_start", "redirected_index"}

C3_StartedBeforeThread ==
    \A j \in Jobs :
        (pc[j] \notin HandlerPcs) =>
            /\ written[j] # <<>>
            /\ written[j][1].status = "started"
            /\ written[j][1].total_scholars = Len(config[j].scholar_ids)
            /\ written[j][1].current_scholar = 0
            /\ written[j][1].progress = 0

\* the started write of a launch raised: the request ended with the
\* redirect to index and the job has no record and no thread
C3_Witness ==
    \E j \in Jobs :
        /\ tcImported
        /\ pc[j] = "redirected_index"
        /\ written[j] = <<>>
        /\ failures > 0
WritesStarted ==
    \E j \in Jobs : pc'[j] # pc[j] /\ status'[j].status = "started"

\* C5 (as stated): a terminal record in the status file is changed only by
\* the write of a 'started' record.
C5_TerminalOnlyReplacedByStarted ==
    [][(/\ statusFile.kind = "json"
        /\ Terminal(statusFile.obj)
        /\ statusFile' # statusFile) => WritesStarted]_vars

\* C5 (amended): while no job is between its 'started' write and its
\* terminal write, a terminal record in the status file is changed only by
\* the write of a 'started' record; the records of a job that overlaps
\* another can replace the other's terminal record.
C5_TerminalKeptBetweenJobs ==
    [][(/\ statusFile.kind = "json"
        /\ Terminal(statusFile.obj)
        /\ \A k \in Jobs : ~Unterminated(k)
        /\ statusFile' # statusFile) => WritesStarted]_vars

\* the 'started' record of a later launch has replaced the terminal record
\* of a job that had ended
C5_Witness ==
    \E j, k \in Jobs :
        /\ pc[k] = "done"
        /\ Terminal(written[k][Len(written[k])])
        /\ pc[j] = "thread_start"
        /\ statusFile = JsonFile(Started(method[j], config[j]))

\* C6: a launch whose course list is empty, whose scholar-id list is empty
\* or whose method is not one of sum, mean, max is rejected by analyze():
\* it writes no record, has no thread and never reaches 'completed'.
C6_InvalidLaunchRejected ==
    \A j \in Jobs :
        (/\ pc[j] # "idle"
         /\ \/ config[j].courses = <<>>
            \/ config[j].scholar_ids = <<>>
            \/ method[j] \notin {"sum", "mean", "max"})
        => (pc[j] = "redirected_index" /\ written[j] = <<>>)

\* the responses of check_status
PollResponses ==
    {"status_page_empty", "status_page", "redirect_check_results", "redirect_index"}

\* C7: a poll leaves the status file and every job as they are and ends in
\* a response, never in an exception; for an absent file the response is
\* the status page with the empty status.
C7_PollIsPureRead ==
    [][(poll' # "none") =>
          /\ statusFile' = statusFile
          /\ pc' = pc
          /\ written' = written
          /\ poll' \in PollResponses
          /\ (statusFile.kind = "absent") => (poll' = "status_page_empty")]_vars

\* a poll was answered while a writer held the truncated file open
C7_Witness ==
    /\ poll = "status_page_empty"
    /\ statusFile.kind = "empty"
    /\ \E j \in Jobs : pc[j] \in DumpPcs

\* C8: when model initialisation or the course embedding raised, no author
\* is fetched, the results directory has no file of the job, and the
\* terminal record has status 'error' with a non-empty error message.
C8_FatalFailureRecorded ==
    \A j \in Jobs :
        (raised[j].at \in {"model_init", "encode_courses"}) =>
            /\ fetched[j] = <<>>
            /\ \A f \in resultsDir : f.uid.job # j
            /\ (pc[j] = "done") =>
                 LET last == written[j][Len(written[j])]
                 IN  /\ last.status = "error"
                     /\ last.error \notin {"", "None"}

\* C9: in a job whose failures are confined to authors, every configured
\* scholar is fetched, in order, the terminal record is 'completed', the
\* rows of the score table are the cleaned names of the authors whose fetch
\* did not return the sentinel, and the row of an author whose similarity
\* computation raised is all zeros.
C9_AuthorFailureIsolated ==
    \A j \in Jobs :
        (pc[j] = "done" /\ raised[j] = NotRaised) =>
            LET df == similarity_df[j]
                ok == {k \in 1..Len(fetched[j]) :
                          ~StartsWith(fetched[j][k].name, ErrorPrefix)}
            IN  /\ written[j][Len(written[j])].status = "completed"
                /\ [k \in 1..Len(fetched[j]) |-> fetched[j][k].scholar_id]
                       = config[j].scholar_ids
                /\ {df[k].name : k \in 1..Len(df)} =
                       {clean_author_name(TRUE, fetched[j][k].name).english : k \in ok}
                /\ \A k \in 1..Len(df) :
                       (\/ df[k].name \in encodeFailed[j]
                        \/ method[j] \notin {"sum", "mean", "max"})
                       => (df[k].row = Zeros(Len(config[j].courses)))

\* the fetch of the first scholar returned the sentinel; the job went on,
\* scored the next author with a row that is not all zeros, and completed
C9_Witness ==
    \E j \in Jobs :
        /\ pc[j] = "done"
        /\ written[j][Len(written[j])].status = "completed"
        /\ Len(fetched[j]) >= 2
        /\ StartsWith(fetched[j][1].name, ErrorPrefix)
        /\ Len(similarity_df[j]) = 1
        /\ similarity_df[j][1].row # Zeros(Len(config[j].courses))

\* C10: the current_scholar values of the records a job writes never
\* decrease from one record to a later one, and none exceeds the
\* total_scholars of its record.
C10_CurrentScholarMonotone ==
    \A j \in Jobs :
        LET w == written[j]
            counted == {k \in 1..Len(w) : "current_scholar" \in DOMAIN w[k]}
        IN  \A a, b \in counted :
                (a <= b) =>
                    /\ w[a].current_scholar <= w[b].current_scholar
                    /\ w[b].current_scholar <= w[b].total_scholars

\* a job has written the counter values 0, 0, 1, 2 and, completed, 2
C10_Witness ==
    \E j \in Jobs :
        /\ Len(written[j]) = 5
        /\ written[j][5].status = "completed"
        /\ [k \in 1..5 |-> written[j][k].current_scholar] = <<0, 0, 1, 2, 2>>
(***************************************************************************)
(* Properties of run_analysis and of the records of its task.              *)
(***************************************************************************)
\* the positions of the records of progress_callback among a job's records
CallbackRecords(j) ==
    {k \in 1..Len(written[j]) : written[j][k].debug_info = "Processing scholar"}

\* C11: the authors of a job are handled in the order of the scholar-id
\* list: the calls of get_author_data are those of a prefix of the list, in
\* order and once each; the k-th record of progress_callback carries the
\* k-th id; the callback of an author has run when the author is fetched,
\* and the callback of the next author runs only after that fetch.
C11_InputOrder ==
    \A j \in Jobs :
        LET n == Len(fetched[j])
            ids == config[j].scholar_ids
        IN  /\ n <= Len(ids)
            /\ \A k \in 1..n : fetched[j][k].scholar_id = ids[k]
            /\ Cardinality(CallbackRecords(j)) \in {n, n + 1}
            /\ (pc[j] = "fetch") => (Cardinality(CallbackRecords(j)) = n + 1)
            /\ (pc[j] = "loop") => (Cardinality(CallbackRecords(j)) = n)
            /\ \A k \in CallbackRecords(j) :
                   /\ k >= 3
                   /\ written[j][k].current_scholar = k - 2
                   /\ written[j][k].current_scholar_id = ids[k - 2]

\* the second author of a job is about to be fetched: its callback has
\* run and the first author's fetch has returned
C11_Witness ==
    \E j \in Jobs :
        /\ pc[j] = "fetch"
        /\ Len(fetched[j]) = 1
        /\ Cardinality(CallbackRecords(j)) = 2

\* C12: in every record written, result_paths is present only in a
\* 'completed' record, an error other than null and a traceback only in an
\* 'error' record, and end_time only in a terminal record.
C12_FieldsByStatus ==
    \A j \in Jobs :
        \A k \in 1..Len(written[j]) :
            LET r == written[j][k]
            IN  /\ ("result_paths" \in DOMAIN r) => (r.status = "completed")
                /\ ("error" \in DOMAIN r /\ r.error # "None") => (r.status = "error")
                /\ ("traceback" \in DOMAIN r) => (r.status = "error")
                /\ ("end_time" \in DOMAIN r) => Terminal(r)

\* a job has written records of all four kinds: its 'completed' write
\* raised after run_analysis returned, and its error record followed
C12_Witness ==
    \E j \in Jobs :
        /\ pc[j] = "done"
        /\ result_paths[j] # NoPaths
        /\ written[j][Len(written[j])].status = "error"
        /\ written[j][Len(written[j])].error = "status file write failed"

\* C13: the names in the result_paths of a 'completed' record share one
\* base name (method and unique id), and each names a file the job wrote
\* into the results directory.
C13_PathsNameWrittenFiles ==
    \A j \in Jobs :
        (written[j] # <<>> /\ written[j][Len(written[j])].status = "completed") =>
            LET paths == written[j][Len(written[j])].result_paths
                names == {paths[f] : f \in DOMAIN paths}
            IN  /\ \A a, b \in names : a.method = b.method /\ a.uid = b.uid
                /\ \A a \in names : a \in resultsDir /\ a.uid.job = j

\* visualize_results of job j raised: run_analysis is past it and the PDF,
\* the last file it saves, is not there
VizRaised(j) ==
    /\ result_paths[j] # NoPaths
    /\ FileName(method[j], VizUid(j), "_heatmap.pdf") \notin resultsDir

\* C14: the CSV is in the results directory when visualize_results is
\* called; when it raised, run_analysis returns, result_paths is the csv
\* entry alone and names that CSV, and the task's terminal record is
\* 'completed' with these paths.
C14_VisualizationFailureDegrades ==
    \A j \in Jobs :
        LET csv == FileName(method[j], RunUid(j), ".csv")
        IN  /\ (pc[j] = "visualize") => (csv \in resultsDir)
            /\ VizRaised(j) =>
                   /\ raised[j] = NotRaised
                   /\ DOMAIN result_paths[j] = {"csv"}
                   /\ result_paths[j].csv = csv
                   /\ csv \in resultsDir
                   /\ (pc[j] = "done") =>
                        /\ written[j][Len(written[j])].status = "completed"
                        /\ written[j][Len(written[j])].result_paths = result_paths[j]

\* visualize_results raised after it saved the PNG, and the job completed
C14_Witness ==
    \E j \in Jobs :
        /\ pc[j] = "done"
        /\ VizRaised(j)
        /\ FileName(method[j], VizUid(j), "_heatmap.png") \in resultsDir
        /\ written[j][Len(written[j])].status = "completed"

\* the authors of job j whose batch loop ran to its end: the positions in
\* author_results of the authors with publications whose encode did not
\* raise
Scored(j) ==
    {k \in 1..Len(author_results[j]) :
        /\ authors[j][k].pub_texts # <<>>
        /\ authors[j][k].name \notin encodeFailed[j]}

\* calculate_similarity on the whole similarity matrix of an author
Unbatched(j, k) ==
    calculate_similarity(cosine_similarity(authors[j][k].pub_texts, config[j].courses),
                         Len(config[j].courses), method[j])

\* C15: for the methods sum and max, the row the batch loop accumulates
\* for an author equals the reduction of the whole similarity matrix.
C15_BatchedEqualsUnbatched ==
    \A j \in Jobs :
        (method[j] \in {"sum", "max"}) =>
            \A k \in Scored(j) : author_results[j][k].row = Unbatched(j, k).v

\* C16: for the method mean, the row of an author with publications is the
\* column-wise mean of the whole similarity matrix: each entry times the
\* number of publications is the column's sum.
C16_MeanOverAllPublications ==
    \A j \in Jobs :
        (method[j] = "mean") =>
            \A k \in Scored(j) :
                \A c \in 1..Len(config[j].courses) :
                    author_results[j][k].row[c] * Unbatched(j, k).den
                        = Unbatched(j, k).v[c]
(***************************************************************************)
(* Properties of the author loop and of the score table.                   *)
(***************************************************************************)
\* the calls of get_author_data of job j that did not return the sentinel
FetchedOk(j) ==
    {k \in 1..Len(fetched[j]) : ~StartsWith(fetched[j][k].name, ErrorPrefix)}

\* C21: the score table of a job that ran to its end has one row for each
\* scholar id whose fetch did not return the sentinel name, and every row
\* has one score per course.
C21_RowPerFetchedAuthor ==
    \A j \in Jobs :
        (pc[j] = "done" /\ raised[j] = NotRaised) =>
            /\ Len(similarity_df[j]) = Cardinality(FetchedOk(j))
            /\ \A k \in 1..Len(similarity_df[j]) :
                   Len(similarity_df[j][k].row) = Len(config[j].courses)

\* C25: when a job's write of a 'running' record with current_scholar =
\* k >= 1 completes, exactly k - 1 calls of get_author_data of the job have
\* returned and no author is scored; the record with current_scholar =
\* total_scholars has progress 100 and is written before the last fetch.
C25_CounterRunsAhead ==
    [][\A j \in Jobs :
          (/\ Len(written'[j]) = Len(written[j]) + 1
           /\ written'[j][Len(written'[j])].status = "running"
           /\ written'[j][Len(written'[j])].current_scholar >= 1) =>
              LET rec == written'[j][Len(written'[j])]
              IN  /\ Len(fetched[j]) = rec.current_scholar - 1
                  /\ fetched'[j] = fetched[j]
                  /\ author_results[j] = <<>>
                  /\ (rec.current_scholar = rec.total_scholars) =>
                         rec.progress = 100]_vars

\* a job of two scholars has written 'running' with current_scholar = 2 of
\* 2 and progress 100 while its second author is not fetched yet
C25_Witness ==
    \E j \in Jobs :
        /\ pc[j] = "fetch"
        /\ written[j][Len(written[j])].status = "running"
        /\ written[j][Len(written[j])].current_scholar = 2
        /\ written[j][Len(written[j])].total_scholars = 2
        /\ written[j][Len(written[j])].progress = 100
        /\ Len(fetched[j]) = 1
        /\ author_results[j] = <<>>

(***************************************************************************)
(* GET /check_results: the newest image file of results/ and the files     *)
(* that share its base name.  A file name is                               *)
(* course_expertise_<method>_<uid><ext>, a uid being eight hex digits.     *)
(***************************************************************************)
\* f.endswith('.png')
EndsWithPng(f) == f.ext = "_heatmap.png"

\* os.path.getmtime of an image file, as its rank among the image files
Mtime(f, order) == CHOOSE k \in 1..Len(order) : order[k] = f

\* the method label: the tokens '_sum_' and '_max_' are looked for in the
\* name, and an underscore stands on each side of <method> only
MethodLabel(latest_file) ==
    IF latest_file.method = "sum" THEN "sum"
    ELSE IF latest_file.method = "max" THEN "max"
    ELSE "unknown"

\* result_paths: the image, and the siblings base_name + "_heatmap.pdf" and
\* base_name + ".csv" that are in the listing
SiblingPaths(latest_file, result_files) ==
    LET pdf_file == FileName(latest_file.method, latest_file.uid, "_heatmap.pdf")
        csv_file == FileName(latest_file.method, latest_file.uid, ".csv")
        keys == {"png"} \cup (IF pdf_file \in result_files THEN {"pdf"} ELSE {})
                       \cup (IF csv_file \in result_files THEN {"csv"} ELSE {})
    IN  [k \in keys |->
            CASE k = "png" -> latest_file
              [] k = "pdf" -> pdf_file
              [] k = "csv" -> csv_file]

\* the response of check_results for a listing of results/: the results
\* page, or the redirect to the index page when no image file is there
check_results_response(result_files, order) ==
    LET png_files == {f \in result_files : EndsWithPng(f)}
    IN  IF png_files = {} THEN [kind |-> "redirect_index"]
        ELSE LET latest_file == CHOOSE f \in png_files :
                     \A g \in png_files : Mtime(g, order) <= Mtime(f, order)
             IN  [kind |-> "results", method |-> MethodLabel(latest_file),
                  result_paths |-> SiblingPaths(latest_file, result_files)]

check_results ==
    /\ page' = check_results_response(resultsDir, pngByMtime)
    /\ NoPoll
    /\ UNCHANGED <<pngByMtime, cacheDir, cacheCall>>
    /\ UNCHANGED cleaning
    /\ UNCHANGED <<clients, tcImported, configFile, statusFile, resultsDir, failures, pc,
                   config, method, status, written>>
    /\ UNCHANGED pipeVars

NextResults == Next \/ check_results

SpecResults == Init /\ [][NextResults]_vars

\* the three files run_analysis and visualize_results write for job j
CsvOf(j) == FileName(method[j], RunUid(j), ".csv")

PngOf(j) == FileName(method[j], VizUid(j), "_heatmap.png")

PdfOf(j) == FileName(method[j], VizUid(j), "_heatmap.pdf")

\* C18: when the job of the newest image file has its three files in
\* results/, the results page lists that job's png, pdf and csv files; a
\* listing without image file gives the redirect that reports no result.
C18_LatestGroupComplete ==
    [][page' # page =>
          /\ (\A f \in resultsDir : ~EndsWithPng(f)) => page'.kind = "redirect_index"
          /\ \A j \in Jobs :
                (/\ pngByMtime # <<>>
                 /\ pngByMtime[Len(pngByMtime)] = PngOf(j)
                 /\ {CsvOf(j), PngOf(j), PdfOf(j)} \subseteq resultsDir) =>
                    /\ page'.kind = "results"
                    /\ page'.result_paths =
                           [png |-> PngOf(j), pdf |-> PdfOf(j), csv |-> CsvOf(j)]]_vars

\* C19: the label of the results page for the image of a job run with
\* method sum, mean or max is that method.
C19_LabelIsMethod ==
    [][(page' # page /\ page'.kind = "results") =>
          \A j \in Jobs :
              (page'.result_paths.png = PngOf(j)
                  /\ method[j] \in {"sum", "mean", "max"}) =>
                 page'.method = method[j]]_vars

(***************************************************************************)
(* Termination of a job.  One launch whose writes and library calls may    *)
(* raise more than once; the thread of the task is scheduled fairly and    *)
(* each of its calls returns or raises.                                    *)
(***************************************************************************)
\* one client, one launch; the environment may make one more call raise
\* than in ClientProfiles
LiveProfile ==
    [launches |-> 1, methods |-> {"sum"}, reconfigure |-> TRUE,
     faults |-> MaxFailures + 1]

InitLive ==
    /\ clients = LiveProfile
    /\ tcImported \in BOOLEAN
    /\ configFile = NoFile
    /\ statusFile = NoFile
    /\ resultsDir = {}
    /\ poll = "none"
    /\ failures = 0
    /\ pc = [j \in Jobs |-> "idle"]
    /\ config = [j \in Jobs |-> DEFAULT_CONFIG]
    /\ method = [j \in Jobs |-> "sum"]
    /\ status = [j \in Jobs |-> NoStatus]
    /\ i = [j \in Jobs |-> 0]
    /\ authors = [j \in Jobs |-> <<>>]
    /\ author_results = [j \in Jobs |-> <<>>]
    /\ similarity_df = [j \in Jobs |-> <<>>]
    /\ result_paths = [j \in Jobs |-> NoPaths]
    /\ written = [j \in Jobs |-> <<>>]
    /\ fetched = [j \in Jobs |-> <<>>]
    /\ raised = [j \in Jobs |-> NotRaised]
    /\ encodeFailed = [j \in Jobs |-> {}]
    /\ pngByMtime = <<>>
    /\ page = NoPage
    /\ cacheDir = NoCache
    /\ cacheCall = [j \in Jobs |-> NotCalling]
    /\ cleaning = NotCleaning

\* a step of the thread of run_analysis_task of job j: the statement it
\* stands at returns or raises
TaskStep(j) ==
    \/ pc[j] \notin HandlerPcs /\ open_status_file(j)
    \/ pc[j] \notin HandlerPcs /\ json_dump(j)
    \/ model_init(j)
    \/ encode_courses(j)
    \/ progress_callback(j)
    \/ fetch(j)
    \/ score(j)
    \/ to_csv(j)
    \/ visualize(j)
    \/ pc[j] \notin HandlerPcs /\ open_raises(j)
    \/ callback_open_raises(j)
    \/ pc[j] \notin HandlerPcs /\ dump_raises(j)
    \/ to_csv_raises(j)

SpecLive == InitLive /\ [][NextIO]_vars /\ \A j \in Jobs : WF_vars(TaskStep(j))

\* C17: every job whose launch was accepted, its 'started' record written
\* and its thread started, eventually has a terminal record as the last
\* record it wrote.
C17_EventuallyTerminal ==
    \A j \in Jobs :
        (pc[j] \notin HandlerPcs) ~>
            (written[j] # <<>> /\ Terminal(written[j][Len(written[j])]))

(***************************************************************************)
(* The progress arithmetic over long scholar-id lists: one job whose       *)
(* configuration lists n scholars, from the first pass of its author loop  *)
(* (its 'started' and 'running' records written) to the last; no call      *)
(* raises.                                                                 *)
(***************************************************************************)
\* the configuration saved by POST /update_config with n scholar-id lines
ConfigOf(n) ==
    [courses |-> DEFAULT_CONFIG.courses,
     scholar_ids |-> [k \in 1..n |-> ScholarId(k)]]

InitProgress ==
    \E n \in 1..MaxTotal :
        /\ clients = [launches |-> 1, methods |-> {"sum"}, reconfigure |-> TRUE,
                      faults |-> 0]
        /\ tcImported = TRUE
        /\ configFile = JsonFile(ConfigOf(n))
        /\ statusFile = JsonFile(Running("sum", ConfigOf(n)))
        /\ resultsDir = {}
        /\ poll = "none"
        /\ failures = 0
        /\ pc = [j \in Jobs |-> IF j = 1 THEN "loop" ELSE "idle"]
        /\ config = [j \in Jobs |-> IF j = 1 THEN ConfigOf(n) ELSE DEFAULT_CONFIG]
        /\ method = [j \in Jobs |-> "sum"]
        /\ status = [j \in Jobs |->
               IF j = 1 THEN Running("sum", ConfigOf(n)) ELSE NoStatus]
        /\ i = [j \in Jobs |-> 0]
        /\ authors = [j \in Jobs |-> <<>>]
        /\ author_results = [j \in Jobs |-> <<>>]
        /\ similarity_df = [j \in Jobs |-> <<>>]
        /\ result_paths = [j \in Jobs |-> NoPaths]
        /\ written = [j \in Jobs |->
               IF j = 1 THEN <<Started("sum", ConfigOf(n)), Running("sum", ConfigOf(n))>>
               ELSE <<>>]
        /\ fetched = [j \in Jobs |-> <<>>]
        /\ raised = [j \in Jobs |-> NotRaised]
        /\ encodeFailed = [j \in Jobs |-> {}]
        /\ pngByMtime = <<>>
        /\ page = NoPage
        /\ cacheDir = NoCache
        /\ cacheCall = [j \in Jobs |-> NotCalling]
        /\ cleaning = NotCleaning

NextProgress ==
    \E j \in Jobs :
        \/ progress_callback(j)
        \/ json_dump(j)
        \/ fetch(j)

SpecProgress == InitProgress /\ [][NextProgress]_vars

\* C20: in every status record written that carries a progress field,
\* progress is the integer floor of current_scholar * 100 / total_scholars
\* and lies in 0..100; it is 0 in the 'started' record and 100 in the
\* 'completed' record.
C20_ProgressIsFloor ==
    \A j \in Jobs :
        \A k \in 1..Len(written[j]) :
            "progress" \in DOMAIN written[j][k] =>
                /\ written[j][k].progress \in 0..100
                /\ written[j][k].status = "started" => written[j][k].progress = 0
                /\ written[j][k].status = "completed" => written[j][k].progress = 100
                /\ ("current_scholar" \in DOMAIN written[j][k]
                        /\ written[j][k].total_scholars > 0) =>
                       written[j][k].progress =
                           (written[j][k].current_scholar * 100)
                               \div written[j][k].total_scholars

(***************************************************************************)
(* run_analysis and the callback its caller passes: none, the callback of  *)
(* run_analysis_task, or a callback that raises for some authors.  One job *)
(* from the first pass of its author loop (its 'started' and 'running'     *)
(* records written) to its end.                                            *)
(***************************************************************************)
CallbackKinds == {"none", "returns", "raises"}

\* the default configuration, and a list of three scholars two of whom
\* share a cleaned name
ObserverConfigs ==
    {DEFAULT_CONFIG,
     [courses |-> DEFAULT_CONFIG.courses,
      scholar_ids |-> <<ScholarId(2), ScholarId(3), ScholarId(1)>>]}

InitObserver ==
    \E cb \in CallbackKinds, cfg \in ObserverConfigs, m \in {"sum", "max"} :
        /\ clients = [launches |-> 1, methods |-> {m}, reconfigure |-> TRUE,
                      faults |-> MaxFailures, callback |-> cb]
        /\ tcImported = TRUE
        /\ configFile = JsonFile(cfg)
        /\ statusFile = JsonFile(Running(m, cfg))
        /\ resultsDir = {}
        /\ poll = "none"
        /\ failures = 0
        /\ pc = [j \in Jobs |-> IF j = 1 THEN "loop" ELSE "idle"]
        /\ config = [j \in Jobs |-> IF j = 1 THEN cfg ELSE DEFAULT_CONFIG]
        /\ method = [j \in Jobs |-> IF j = 1 THEN m ELSE "sum"]
        /\ status = [j \in Jobs |-> IF j = 1 THEN Running(m, cfg) ELSE NoStatus]
        /\ i = [j \in Jobs |-> 0]
        /\ authors = [j \in Jobs |-> <<>>]
        /\ author_results = [j \in Jobs |-> <<>>]
        /\ similarity_df = [j \in Jobs |-> <<>>]
        /\ result_paths = [j \in Jobs |-> NoPaths]
        /\ written = [j \in Jobs |->
               IF j = 1 THEN <<Started(m, cfg), Running(m, cfg)>> ELSE <<>>]
        /\ fetched = [j \in Jobs |-> <<>>]
        /\ raised = [j \in Jobs |-> NotRaised]
        /\ encodeFailed = [j \in Jobs |-> {}]
        /\ pngByMtime = <<>>
        /\ page = NoPage
        /\ cacheDir = NoCache
        /\ cacheCall = [j \in Jobs |-> NotCalling]
        /\ cleaning = NotCleaning

\* `if progress_callback:` with no callback supplied
no_callback(j) ==
    /\ pc[j] = "loop"
    /\ clients.callback = "none"
    /\ pc' = [pc EXCEPT ![j] = "fetch"]
    /\ NoPoll
    /\ UNCHANGED <<pngByMtime, page, cacheDir, cacheCall>>
    /\ UNCHANGED cleaning
    /\ UNCHANGED <<clients, tcImported, configFile, statusFile, resultsDir, failures,
                   config, method, status, written>>
    /\ UNCHANGED pipeVars

\* progress_callback(i, scholar_id) raises: the except clause of the loop
\* body logs and continues with the next scholar
callback_raises(j) ==
    /\ pc[j] = "loop"
    /\ clients.callback = "raises"
    /\ Injects(TRUE)
    /\ i' = [i EXCEPT ![j] = @ + 1]
    /\ pc' = [pc EXCEPT ![j] = LoopGoes(i[j] + 1, config[j])]
    /\ NoPoll
    /\ UNCHANGED <<pngByMtime, page, cacheDir, cacheCall>>
    /\ UNCHANGED cleaning
    /\ UNCHANGED <<clients, tcImported, configFile, statusFile, resultsDir,
                   config, method, status, written>>
    /\ UNCHANGED <<authors, author_results, similarity_df, result_paths, fetched,
                   raised, encodeFailed>>

NextObserver ==
    \E j \in Jobs :
        \/ no_callback(j)
        \/ callback_raises(j)
        \/ clients.callback # "none" /\ progress_callback(j)
        \/ open_status_file(j)
        \/ json_dump(j)
        \/ fetch(j)
        \/ score(j)
        \/ to_csv(j)
        \/ visualize(j)

SpecObserver == InitObserver /\ [][NextObserver]_vars

\* all_authors_data after the first k scholars of ids, every fetch
\* returning
RECURSIVE AuthorsOf(_, _)
AuthorsOf(ids, k) ==
    IF k = 0 THEN <<>>
    ELSE AuthorsAfter(AuthorsOf(ids, k - 1), get_author_data(ids[k], FALSE))

\* the table run_analysis returns for a configuration when no call raises
TableOf(cfg, m) ==
    LET auths == AuthorsOf(cfg.scholar_ids, Len(cfg.scholar_ids))
        results == ScoreAll(auths, cfg.courses, m, [k \in 1..Len(auths) |-> -1])
    IN  DropLastName(sort_values(DataFrame(results, auths)))

\* C22: whatever callback is passed, a job that ran to its end has fetched
\* every configured scholar, in order, and completed; and when no fetch
\* returned the sentinel and no encoding raised, its table is the table of
\* the run without callback.
C22_CallbackIsObserver ==
    \A j \in Jobs :
        (pc[j] = "done" /\ raised[j] = NotRaised) =>
            /\ written[j][Len(written[j])].status = "completed"
            /\ [k \in 1..Len(fetched[j]) |-> fetched[j][k].scholar_id]
                   = config[j].scholar_ids
            /\ (FetchedOk(j) = 1..Len(fetched[j]) /\ encodeFailed[j] = {}) =>
                   similarity_df[j] = TableOf(config[j], method[j])

(***************************************************************************)
(* get_author_data step by step, for jobs that run at the same time over   *)
(* the same scholar ids: each job from the first pass of its author loop   *)
(* to the last.  The steps of a call: open(cache_file, 'rb') and           *)
(* pickle.load; the query of the external source; open(cache_file, 'wb');  *)
(* pickle.dump.                                                            *)
(***************************************************************************)
InitCache ==
    /\ clients = [launches |-> MaxJobs, methods |-> {"sum"}, reconfigure |-> FALSE,
                  faults |-> MaxFailures]
    /\ tcImported = TRUE
    /\ configFile = JsonFile(DEFAULT_CONFIG)
    /\ statusFile = JsonFile(Running("sum", DEFAULT_CONFIG))
    /\ resultsDir = {}
    /\ poll = "none"
    /\ failures = 0
    /\ pc = [j \in Jobs |-> "loop"]
    /\ config = [j \in Jobs |-> DEFAULT_CONFIG]
    /\ method = [j \in Jobs |-> "sum"]
    /\ status = [j \in Jobs |-> Running("sum", DEFAULT_CONFIG)]
    /\ i = [j \in Jobs |-> 0]
    /\ authors = [j \in Jobs |-> <<>>]
    /\ author_results = [j \in Jobs |-> <<>>]
    /\ similarity_df = [j \in Jobs |-> <<>>]
    /\ result_paths = [j \in Jobs |-> NoPaths]
    /\ written = [j \in Jobs |->
           <<Started("sum", DEFAULT_CONFIG), Running("sum", DEFAULT_CONFIG)>>]
    /\ fetched = [j \in Jobs |-> <<>>]
    /\ raised = [j \in Jobs |-> NotRaised]
    /\ encodeFailed = [j \in Jobs |-> {}]
    /\ pngByMtime = <<>>
    /\ page = NoPage
    /\ cacheDir = NoCache
    /\ cacheCall = [j \in Jobs |-> NotCalling]
    /\ cleaning = NotCleaning

\* the scholar id of the call of job j
CallId(j) == config[j].scholar_ids[i[j] + 1]

\* a job's query of the external source for scholar_id has returned the
\* author and the job has not opened the cache file yet
SourceReturned(scholar_id) ==
    \E k \in Jobs : /\ pc[k] = "fetch"
                     /\ cacheCall[k].at = "write"
                     /\ CallId(k) = scholar_id

\* open(cache_file, 'wb'): the file is created or truncated
Truncated(files, scholar_id) ==
    [id \in DOMAIN files \cup {scholar_id} |->
        IF id = scholar_id
        THEN [kind |-> "empty",
              writes |-> IF id \in DOMAIN files THEN files[id].writes + 1 ELSE 1]
        ELSE files[id]]

\* get_author_data returns data to the loop body, which goes on as after
\* a fetch
ReturnsToLoop(j, data, after_call) ==
    /\ authors' = [authors EXCEPT ![j] = AuthorsAfter(@, data)]
    /\ fetched' = [fetched EXCEPT ![j] =
           Append(@, [scholar_id |-> CallId(j), name |-> data.name])]
    /\ i' = [i EXCEPT ![j] = @ + 1]
    /\ pc' = [pc EXCEPT ![j] = LoopGoes(i[j] + 1, config[j])]
    /\ cacheCall' = [cacheCall EXCEPT ![j] = after_call]

\* the call goes on inside get_author_data
CallGoes(j, at) ==
    /\ cacheCall' = [cacheCall EXCEPT ![j] = at]
    /\ UNCHANGED <<i, pc, authors, fetched>>

\* open(cache_file, 'rb') and pickle.load(f): FileNotFoundError leads to
\* the query; a complete file gives the author; on a file that is empty
\* or partly written pickle.load raises, and the call returns the sentinel
cache_open(j) ==
    /\ pc[j] = "fetch"
    /\ cacheCall[j].at = "none"
    /\ IF CallId(j) \notin DOMAIN cacheDir
       THEN CallGoes(j, [at |-> "query", late |-> SourceReturned(CallId(j))])
       ELSE IF cacheDir[CallId(j)].kind = "pickle"
            THEN ReturnsToLoop(j, get_author_data(CallId(j), FALSE), NotCalling)
            ELSE ReturnsToLoop(j, get_author_data(CallId(j), TRUE),
                               [at |-> "none", torn |-> TRUE])
    /\ NoPoll
    /\ UNCHANGED <<pngByMtime, page, cacheDir>>
    /\ UNCHANGED cleaning
    /\ UNCHANGED <<clients, tcImported, configFile, statusFile, resultsDir, failures,
                   config, method, status, written>>
    /\ UNCHANGED <<author_results, similarity_df, result_paths, raised,
                   encodeFailed>>

\* scholarly.search_author_id and scholarly.fill: return the author or
\* raise
source_query(j) ==
    /\ pc[j] = "fetch"
    /\ cacheCall[j].at = "query"
    /\ \E fails \in BOOLEAN :
        /\ Injects(fails)
        /\ IF fails
           THEN ReturnsToLoop(j, get_author_data(CallId(j), TRUE), NotCalling)
           ELSE CallGoes(j, [at |-> "write", late |-> cacheCall[j].late])
    /\ NoPoll
    /\ UNCHANGED <<pngByMtime, page, cacheDir>>
    /\ UNCHANGED cleaning
    /\ UNCHANGED <<clients, tcImported, configFile, statusFile, resultsDir,
                   config, method, status, written>>
    /\ UNCHANGED <<author_results, similarity_df, result_paths, raised,
                   encodeFailed>>

\* open(cache_file, 'wb')
cache_write_open(j) ==
    /\ pc[j] = "fetch"
    /\ cacheCall[j].at = "write"
    /\ cacheDir' = Truncated(cacheDir, CallId(j))
    /\ CallGoes(j, [at |-> "dump", late |-> cacheCall[j].late])
    /\ NoPoll
    /\ UNCHANGED <<pngByMtime, page>>
    /\ UNCHANGED cleaning
    /\ UNCHANGED <<clients, tcImported, configFile, statusFile, resultsDir, failures,
                   config, method, status, written>>
    /\ UNCHANGED <<author_results, similarity_df, result_paths, raised,
                   encodeFailed>>

\* pickle.dump(author, f) and the close of the file: the entry is
\* complete, or the dump raised and a part of it is in the file
cache_dump(j) ==
    /\ pc[j] = "fetch"
    /\ cacheCall[j].at = "dump"
    /\ \E fails \in BOOLEAN :
        /\ Injects(fails)
        /\ cacheDir' = [cacheDir EXCEPT ![CallId(j)].kind =
               IF fails THEN "partial" ELSE "pickle"]
        /\ ReturnsToLoop(j, get_author_data(CallId(j), fails), NotCalling)
    /\ NoPoll
    /\ UNCHANGED <<pngByMtime, page>>
    /\ UNCHANGED cleaning
    /\ UNCHANGED <<clients, tcImported, configFile, statusFile, resultsDir,
                   config, method, status, written>>
    /\ UNCHANGED <<author_results, similarity_df, result_paths, raised,
                   encodeFailed>>

NextCache ==
    \E j \in Jobs :
        \/ progress_callback(j)
        \/ json_dump(j)
        \/ cache_open(j)
        \/ source_query(j)
        \/ cache_write_open(j)
        \/ cache_dump(j)

SpecCache == InitCache /\ [][NextCache]_vars

\* C23: no cache file is opened for writing more than once; no call of
\* get_author_data has read a cache file that was empty or partly written;
\* and no call that began after the external source had returned the
\* author of its scholar id gets the author from the source again.
C23_CacheWriteOnce ==
    /\ \A id \in DOMAIN cacheDir : cacheDir[id].writes <= 1
    /\ \A j \in Jobs : "torn" \notin DOMAIN cacheCall[j]
    /\ \A j \in Jobs : cacheCall[j].at \in {"write", "dump"} => ~cacheCall[j].late

(***************************************************************************)
(* clean_author_name on its own: one call with any short name, or with an  *)
(* argument that is no str.                                                *)
(***************************************************************************)
\* the characters of the names: space, A, B, - and (
NameChars == {32, 65, 66, 45, 40}

\* the arguments: the texts of up to MaxName characters, and None
CleanInputs ==
    {[isStr |-> TRUE, name |-> t] :
        t \in UNION {[1..n -> NameChars] : n \in 0..MaxName}}
    \cup {[isStr |-> FALSE, name |-> <<>>]}

InitClean ==
    /\ clients = [launches |-> 1, methods |-> {"sum"}, reconfigure |-> TRUE,
                  faults |-> 0]
    /\ tcImported = TRUE
    /\ configFile = NoFile
    /\ statusFile = NoFile
    /\ resultsDir = {}
    /\ poll = "none"
    /\ failures = 0
    /\ pc = [j \in Jobs |-> "idle"]
    /\ config = [j \in Jobs |-> DEFAULT_CONFIG]
    /\ method = [j \in Jobs |-> "sum"]
    /\ status = [j \in Jobs |-> NoStatus]
    /\ i = [j \in Jobs |-> 0]
    /\ authors = [j \in Jobs |-> <<>>]
    /\ author_results = [j \in Jobs |-> <<>>]
    /\ similarity_df = [j \in Jobs |-> <<>>]
    /\ result_paths = [j \in Jobs |-> NoPaths]
    /\ written = [j \in Jobs |-> <<>>]
    /\ fetched = [j \in Jobs |-> <<>>]
    /\ raised = [j \in Jobs |-> NotRaised]
    /\ encodeFailed = [j \in Jobs |-> {}]
    /\ pngByMtime = <<>>
    /\ page = NoPage
    /\ cacheDir = NoCache
    /\ cacheCall = [j \in Jobs |-> NotCalling]
    /\ \E arg \in CleanInputs :
           cleaning = [at |-> "called", isStr |-> arg.isStr, name |-> arg.name]

\* clean_author_name(name) runs: it returns a pair or raises
clean_call ==
    /\ cleaning.at = "called"
    /\ cleaning' = [at |-> "ended", isStr |-> cleaning.isStr, name |-> cleaning.name,
                    result |-> clean_author_name(cleaning.isStr, cleaning.name)]
    /\ UNCHANGED <<pngByMtime, page, cacheDir, cacheCall>>
    /\ UNCHANGED <<clients, tcImported, configFile, statusFile, resultsDir, poll,
                   failures, pc, config, method, status, written>>
    /\ UNCHANGED pipeVars

NextClean == clean_call

SpecClean == InitClean /\ [][NextClean]_vars

\* the text of s before its first delimiter
RECURSIVE BeforeDelimiter(_)
BeforeDelimiter(s) ==
    IF s = <<>> THEN <<>>
    ELSE IF Head(s) \in Delimiters THEN <<>>
    ELSE <<Head(s)>> \o BeforeDelimiter(Tail(s))

\* C24: a call of clean_author_name does not raise; for an empty name or
\* an argument that is no str it returns ("Unknown", "Unknown"); for a
\* name whose text before the first delimiter is not blank it returns that
\* text trimmed and its last word; for any other name it returns the name
\* as both fields.
C24_CleanNeverRaises ==
    (cleaning.at = "ended") =>
        LET r == cleaning.result
            segment == Strip(BeforeDelimiter(cleaning.name))
        IN  /\ ~r.raised
            /\ IF cleaning.name = <<>> \/ ~cleaning.isStr
               THEN r.english = Unknown /\ r.last = Unknown
               ELSE IF segment # <<>>
               THEN /\ r.english = segment
                    /\ r.last = Words(segment)[Len(Words(segment))]
               ELSE r.english = cleaning.name /\ r.last = cleaning.name
====
